---- MODULE Spec2Model ----
(***************************************************************************)
(* Sales analytics dashboard: load_data (normalisation), the cascading     *)
(* sidebar filters of main(), calculate_trend, the KPI row,                *)
(* generate_insights, the chart frames, and the Platform Intelligence and  *)
(* Product Matrix pages with the session state they read.                  *)
(*                                                                         *)
(* Representation.                                                         *)
(*  - A dataframe is [ok, cols, rows]: ok = FALSE is Python's None, cols   *)
(*    the set of column labels, rows the sequence of rows.  A row carries  *)
(*    every field; a field whose column is not in cols is never read       *)
(*    without the membership test the code makes, or the read raises.      *)
(*  - A timestamp is an integer number of ticks, TicksPerDay ticks a day,  *)
(*    counted from 1970-01-01 00:00; NaT is the sentinel below all of      *)
(*    them and every comparison with NaT is false, as in pandas.           *)
(*  - A float quotient a / b is the pair [num |-> a, den |-> b]; den = 0   *)
(*    is what IEEE division by zero leaves (inf or NaN).                   *)
(*  - A null cell of an object column is NA.                               *)
(***************************************************************************)
EXTENDS Integers, Sequences, FiniteSets, TLC

\* ------------------------------------------------------------------ bounds

\* Most rows a workbook of the model holds.
MaxRows == 3
\* Ticks (times of day) a day is divided into.
TicksPerDay == 2
\* Most products of a wide workbook (one row per product), enough to pass the
\* Pareto chart's truncation.
MaxProducts == 51

\* ---------------------------------------------------------------- null values

NA == "<NA>"
NaT == -1

\* ------------------------------------------------------------------ calendar

\* Days from 1970-01-01 to the civil date y-m-d (proleptic Gregorian), what
\* pd.to_datetime computes for a parseable date cell.
DaysFromCivil(y, m, d) ==
  LET yy  == IF m <= 2 THEN y - 1 ELSE y
      era == yy \div 400
      yoe == yy - era * 400
      mp  == IF m > 2 THEN m - 3 ELSE m + 9
      doy == (153 * mp + 2) \div 5 + d - 1
      doe == yoe * 365 + yoe \div 4 - yoe \div 100 + doy
  IN era * 146097 + doe - 719468

\* The civil date of day number z: Timestamp.year and Timestamp.month.
CivilFromDays(z) ==
  LET zz  == z + 719468
      era == zz \div 146097
      doe == zz - era * 146097
      yoe == (doe - doe \div 1460 + doe \div 36524 - doe \div 146096) \div 365
      doy == doe - (365 * yoe + yoe \div 4 - yoe \div 100)
      mp  == (5 * doy + 2) \div 153
      d   == doy - (153 * mp + 2) \div 5 + 1
      m   == IF mp < 10 THEN mp + 3 ELSE mp - 9
      y   == yoe + era * 400 + (IF m <= 2 THEN 1 ELSE 0)
  IN [year |-> y, month |-> m, day |-> d]

DayOf(ts) == ts \div TicksPerDay
YearOf(ts) == CivilFromDays(DayOf(ts)).year
MonthOf(ts) == CivilFromDays(DayOf(ts)).month

\* pd.to_datetime(date): midnight of that day.
Midnight(day) == day * TicksPerDay

\* pd.to_datetime(cell, errors='coerce'): a date cell <<y, m, d, tick>> parses,
\* anything else (here <<>>) becomes NaT.
ToDatetime(cell) ==
  IF Len(cell) = 4
  THEN DaysFromCivil(cell[1], cell[2], cell[3]) * TicksPerDay + cell[4]
  ELSE NaT

\* Comparisons of a datetime column with a timestamp: false on NaT.
DateGe(a, b) == a # NaT /\ b # NaT /\ a >= b
DateLe(a, b) == a # NaT /\ b # NaT /\ a <= b

\* ------------------------------------------------------------------ workbook

IdCols == {"Final Order date", "Main Parties", "Group Name", "Item Desc"}
AmtCols == {"Sale (Amt.)", "Sale Return (Amt.)"}
QtyCols == {"Sale (Qty.)", "Sale Return (Qty.)"}
StatusCols == {"Transaction Type", "Dispatch Status"}
AllCols == IdCols \cup AmtCols \cup QtyCols \cup StatusCols

\* Column sets of the workbooks of the model.
ColumnSets == {AllCols, AllCols \ IdCols, AllCols \ StatusCols, AllCols \ AmtCols}

\* A raw row of the sheet.  A numeric cell is <<n>>, or <<>> when it is blank
\* or not a number; a date cell is <<y, m, d, tick>>, or <<>> when it is not a
\* date.
Raw(date, party, group, item, ttype, disp, sa, sr, sq, rq) ==
  [date |-> date, party |-> party, group |-> group, item |-> item,
   ttype |-> ttype, dispatch |-> disp,
   sale_amt |-> sa, ret_amt |-> sr, sale_qty |-> sq, ret_qty |-> rq]

SampleRows ==
  << Raw(<<2024, 2, 28, 0>>, "B", "X", "P", "Sale",   "Shipped", <<10>>, <<0>>, <<1>>, <<0>>),
     Raw(<<2024, 2, 29, 1>>, "A", "X", "P", "Sale",   "Shipped", <<20>>, <<5>>, <<2>>, <<1>>),
     Raw(<<2024, 3, 2, 1>>,  "A", "Y", "Q", "Return", "Pending", <<0>>,  <<5>>, <<0>>, <<1>>),
     Raw(<<>>,               "A", NA,  "Q", "Sale",   "Shipped", <<10>>, <<>>,  <<>>,  <<0>>),
     Raw(<<2024, 3, 2, 0>>,  NA,  "Y", NA,  "Sale",   NA,        <<30>>, <<0>>, <<3>>, <<0>>),
     Raw(<<2024, 3, 1, 0>>,  "B", "Y", "Q", "Return", "Shipped", <<0>>,  <<0>>, <<0>>, <<0>>),
     Raw(<<2024, 3, 4, 0>>,  "A", "X", "P", "Sale",   "Shipped", <<5>>,  <<0>>, <<1>>, <<0>>) >>

\* The rows of s at the positions in S, in order.
RECURSIVE Pick(_, _, _)
Pick(s, S, i) ==
  IF i > Len(s) THEN <<>>
  ELSE (IF i \in S THEN <<s[i]>> ELSE <<>>) \o Pick(s, S, i + 1)

RowLists ==
  { Pick(SampleRows, S, 1) :
      S \in { T \in SUBSET (1..Len(SampleRows)) : Cardinality(T) <= MaxRows } }

\* Item descriptions of the wide workbooks, in sorted order.
SkuNames ==
  << "S01", "S02", "S03", "S04", "S05", "S06", "S07", "S08", "S09", "S10",
     "S11", "S12", "S13", "S14", "S15", "S16", "S17", "S18", "S19", "S20",
     "S21", "S22", "S23", "S24", "S25", "S26", "S27", "S28", "S29", "S30",
     "S31", "S32", "S33", "S34", "S35", "S36", "S37", "S38", "S39", "S40",
     "S41", "S42", "S43", "S44", "S45", "S46", "S47", "S48", "S49", "S50",
     "S51", "S52", "S53", "S54", "S55", "S56", "S57", "S58", "S59", "S60" >>

\* One row per product, n products of one platform and category; the p-th
\* sold for base + (p * step) % 7.
WideRow(p, base, step) ==
  Raw(<<2024, 3, 1, 0>>, "A", "X", SkuNames[p], "Sale", "Shipped",
      <<base + ((p * step) % 7)>>, <<0>>, <<1>>, <<0>>)

WideRowLists ==
  { [p \in 1..n |-> WideRow(p, base, step)] :
      n \in (MaxProducts - 2)..MaxProducts, base \in {0, 1}, step \in {0, 3} }

\* Sheets for load_data alone.  A dated sheet has one row with a date of the
\* calendar, every month of three years and the turn of a century, and one
\* row whose date cell is not a date.
DatedRow(y, m, d) ==
  Raw(<<y, m, d, 0>>, "A", "X", "P", "Sale", "Shipped", <<10>>, <<0>>, <<1>>, <<0>>)
UndatedRow ==
  Raw(<<>>, "B", "Y", "Q", "Sale", "Shipped", <<20>>, <<5>>, <<2>>, <<1>>)
DatedRowLists ==
  { <<DatedRow(y, m, d), UndatedRow>> :
      y \in {1999, 2023, 2024}, m \in 1..12, d \in {1, 28} }

\* A numeric sheet has one row with each of the four numeric cells a number
\* (zero, positive, negative) or not a number.
NumericCells == { <<>>, <<0>>, <<7>>, <<-3>> }
NumericRowLists ==
  { << Raw(<<2024, 4, 1, 0>>, "A", "X", "P", "Sale", "Shipped", sa, sr, sq, rq) >> :
      sa \in NumericCells, sr \in NumericCells, sq \in NumericCells, rq \in NumericCells }

\* Column sets of the numeric sheets: every column, or one numeric column less.
NumericColumnSets ==
  {AllCols} \cup { AllCols \ {c} : c \in AmtCols \cup QtyCols }

\* What the file uploader hands to load_data: nothing, a file pd.read_excel
\* cannot read, a workbook without the sheet 'Final Sale Data', or a workbook
\* with the sheet.
NoFile == [kind |-> "none", cols |-> {}, rows |-> <<>>]
Unreadable == [kind |-> "unreadable", cols |-> {}, rows |-> <<>>]
NoSheet == [kind |-> "nosheet", cols |-> {}, rows |-> <<>>]
Workbook(cols, rows) == [kind |-> "workbook", cols |-> cols, rows |-> rows]

Files ==
  {Unreadable, NoSheet}
    \cup { Workbook(c, r) : c \in ColumnSets, r \in RowLists }

LoadFiles ==
  { Workbook(AllCols, r) : r \in DatedRowLists }
    \cup { Workbook(c, r) : c \in NumericColumnSets, r \in NumericRowLists }

\* ------------------------------------------------------------------ load_data

None == [ok |-> FALSE, cols |-> {}, rows |-> <<>>]

\* pd.to_numeric(cell, errors='coerce') followed by fillna(0).
ToNumeric(cell) == IF Len(cell) = 1 THEN cell[1] ELSE 0

\* Mutant: the fiscal year starts in April.
FiscalYear_FromApril(x) ==
  IF x # NaT /\ MonthOf(x) >= 4
  THEN <<YearOf(x), (YearOf(x) + 1) % 100>>
  ELSE IF x # NaT THEN <<YearOf(x) - 1, YearOf(x) % 100>>
  ELSE <<>>

\* The 'Fiscal Year' label FY{y}-{yy} of a timestamp, as <<y, yy>>; None on NaT.
FiscalYear(x) ==
  IF x # NaT /\ MonthOf(x) >= 3
  THEN <<YearOf(x), (YearOf(x) + 1) % 100>>
  ELSE IF x # NaT THEN <<YearOf(x) - 1, YearOf(x) % 100>>
  ELSE <<>>

\* strftime('%B %Y') and to_period('M'): the month and year, <<>> on NaT.
MonthLabel(x) == IF x # NaT THEN <<MonthOf(x), YearOf(x)>> ELSE <<>>

\* One raw row, normalised.  i is the row's index label.
Normalize(cols, r, i) ==
  LET date == IF "Final Order date" \in cols THEN ToDatetime(r.date) ELSE NaT
      num(c, cell) == IF c \in cols THEN ToNumeric(cell) ELSE 0
      sa == num("Sale (Amt.)", r.sale_amt)
      sr == num("Sale Return (Amt.)", r.ret_amt)
      sq == num("Sale (Qty.)", r.sale_qty)
      rq == num("Sale Return (Qty.)", r.ret_qty)
  IN [idx |-> i,
      date |-> date,
      fiscal_year |-> FiscalYear(date),
      month |-> MonthLabel(date),
      platform |-> IF "Main Parties" \in cols THEN r.party ELSE NA,
      category |-> IF "Group Name" \in cols THEN r.group ELSE NA,
      product |-> IF "Item Desc" \in cols THEN r.item ELSE NA,
      ttype |-> IF "Transaction Type" \in cols THEN r.ttype ELSE NA,
      dispatch |-> IF "Dispatch Status" \in cols THEN r.dispatch ELSE NA,
      sale_amt |-> sa, ret_amt |-> sr, sale_qty |-> sq, ret_qty |-> rq,
      net_revenue |-> sa - sr,
      net_quantity |-> sq - rq]

\* The columns of the frame load_data returns.
LoadedCols(cols) ==
  cols
    \cup (IF "Final Order date" \in cols THEN {"Fiscal Year", "Month", "Month_Num"} ELSE {})
    \cup (IF AmtCols \subseteq cols THEN {"Net Revenue"} ELSE {})
    \cup (IF QtyCols \subseteq cols THEN {"Net Quantity"} ELSE {})
    \cup {"Platform", "Category", "Product"}

\* Mutant: the except branch returns an empty frame instead of None.
load_data_EmptyOnError(f) ==
  IF f.kind = "none" THEN None
  ELSE IF f.kind # "workbook" THEN [ok |-> TRUE, cols |-> {}, rows |-> <<>>]
  ELSE [ok |-> TRUE,
        cols |-> LoadedCols(f.cols),
        rows |-> [i \in 1..Len(f.rows) |-> Normalize(f.cols, f.rows[i], i)]]

\* Mutant: a sheet without any identifying column is refused.
load_data_RequireIdCols(f) ==
  IF f.kind # "workbook" \/ f.cols \cap IdCols = {} THEN None
  ELSE [ok |-> TRUE,
        cols |-> LoadedCols(f.cols),
        rows |-> [i \in 1..Len(f.rows) |-> Normalize(f.cols, f.rows[i], i)]]

\* load_data(uploaded_file): None when there is no file or when reading the
\* sheet raises (the except branch), the normalised frame otherwise.
load_data(f) ==
  IF f.kind # "workbook" THEN None
  ELSE [ok |-> TRUE,
        cols |-> LoadedCols(f.cols),
        rows |-> [i \in 1..Len(f.rows) |-> Normalize(f.cols, f.rows[i], i)]]

\* st.error is shown exactly in the except branch.
load_error(f) == f.kind \in {"unreadable", "nosheet"}

\* ------------------------------------------------------------------ frames

\* Series.dropna().unique() of a column, as a set.  null is the column's null.
Unique(rows, col, null) == { rows[i][col] : i \in 1..Len(rows) } \ {null}

\* frame[frame[col] == value]: a null cell equals nothing.
WhereEq(rows, col, value) ==
  LET Keep(r) == r[col] = value IN SelectSeq(rows, Keep)

\* frame[frame[col].isin(values)].
WhereIn(rows, col, values) ==
  LET Keep(r) == r[col] \in values IN SelectSeq(rows, Keep)

\* Series.min() and Series.max() of the date column: NaT is skipped, and NaT
\* is the result when nothing is left.
ValidDates(rows) == { rows[i].date : i \in 1..Len(rows) } \ {NaT}
MinDate(rows) ==
  IF ValidDates(rows) = {} THEN NaT
  ELSE CHOOSE d \in ValidDates(rows) : \A e \in ValidDates(rows) : d <= e
MaxDate(rows) ==
  IF ValidDates(rows) = {} THEN NaT
  ELSE CHOOSE d \in ValidDates(rows) : \A e \in ValidDates(rows) : d >= e

\* Series.sum() of the column col over rows lo..hi, by halves.
RECURSIVE SumRange(_, _, _, _)
SumRange(rows, col, lo, hi) ==
  IF lo > hi THEN 0
  ELSE IF lo = hi THEN rows[lo][col]
  ELSE LET mid == (lo + hi) \div 2
       IN SumRange(rows, col, lo, mid) + SumRange(rows, col, mid + 1, hi)

\* Series.sum() of the column col.
SumOf(rows, col) == SumRange(rows, col, 1, Len(rows))

\* a / b in floating point.
Ratio(a, b) == [num |-> a, den |-> b]
Zero == Ratio(0, 1)

\* ------------------------------------------------------------------ state

VARIABLES
  uploaded_file,   \* what the file uploader holds
  df,              \* main(): the frame load_data returned, None before
  st_error,        \* whether this run showed st.error
  pc,              \* main(): the next step of the script
  filter_df,       \* main(): the rows of the working frame
  widget,          \* the sidebar widget last drawn: its options and selection
  date_range,      \* the value of the date_input, <<>> when it was not drawn
  prev,            \* what calculate_trend returned
  kpi,             \* the KPI row
  insights,        \* what generate_insights returned
  charts,          \* main(): the frames behind the four charts
  session_data,    \* st.session_state.data, read by the pages
  st_warning,      \* the page that last stopped on "No data found", "" if none
  platform_metrics,\* Platform Intelligence: the performance matrix
  return_data,     \* Platform Intelligence: the return-rate ranking
  prod_stats,      \* Product Matrix: revenue and volume by product
  pareto_data      \* Product Matrix: the Pareto chart's frame

vars ==
  << uploaded_file, df, st_error, pc, filter_df, widget, date_range, prev, kpi,
     insights, charts, session_data, st_warning, platform_metrics, return_data,
     prod_stats, pareto_data >>

main_out == << prev, kpi, insights, charts >>
page_vars ==
  << session_data, st_warning, platform_metrics, return_data, prod_stats,
     pareto_data >>

\* A widget: the options offered besides 'All', whether 'All' is selected, and
\* the other values selected.
Widget(name, options, all, values) ==
  [name |-> name, options |-> options, all |-> all, values |-> values]
NoWidget == Widget("", {}, TRUE, {})

NoTrend == [ok |-> FALSE, revenue |-> 0, qty |-> 0, orders |-> 0, avg |-> Zero]
NoKpi == [ok |-> FALSE]
NoInsights == [raised |-> FALSE, items |-> <<>>]
NoCharts ==
  [drawn |-> FALSE, raised |-> FALSE, platform_data |-> <<>>,
   category_data |-> <<>>, time_data |-> <<>>, top_products |-> <<>>]

\* ------------------------------------------------------------------ main: load

\* The top of main(): df = load_data(uploaded_file); st.stop() when df is
\* None; filter_df = df.copy() otherwise.  f is the file the uploader holds in
\* this run.
Load(f) ==
  /\ pc = "load"
  /\ uploaded_file' = f
  /\ df' = load_data(f)
  /\ st_error' = load_error(f)
  /\ pc' = IF load_data(f).ok THEN "fiscal_year" ELSE "stopped"
  /\ filter_df' = load_data(f).rows
  /\ UNCHANGED << widget, date_range, main_out, page_vars >>

\* The script has ended (st.stop() or its last line) and an interaction starts
\* it again: the locals of the ended run are gone, what it drew from df stays
\* on the page until the new run replaces it.
Rerun ==
  /\ pc \in {"stopped", "done"}
  /\ pc' = "load"
  /\ filter_df' = <<>>
  /\ widget' = NoWidget
  /\ date_range' = <<>>
  /\ prev' = NoTrend
  /\ kpi' = NoKpi
  /\ insights' = NoInsights
  /\ charts' = NoCharts
  /\ UNCHANGED << uploaded_file, df, st_error, page_vars >>

\* ------------------------------------------------------------------ main: filters

\* A selectbox over the column col: the choice is 'All' or one option.
Selectbox(name, options, col, next) ==
  \E all \in BOOLEAN :
    \E values \in (IF all THEN {{}} ELSE { {v} : v \in options }) :
      /\ widget' = Widget(name, options, all, values)
      /\ filter_df' = IF ~all
                      THEN WhereEq(filter_df, col, CHOOSE v \in values : TRUE)
                      ELSE filter_df
      /\ pc' = next

\* A multiselect over the column col: any subset of 'All' and the options.
Multiselect(name, options, col, next) ==
  \E all \in BOOLEAN :
    \E values \in SUBSET options :
      /\ widget' = Widget(name, options, all, values)
      /\ filter_df' = IF ~all /\ values # {}
                      THEN WhereIn(filter_df, col, values)
                      ELSE filter_df
      /\ pc' = next

Skip(next) ==
  /\ pc' = next
  /\ UNCHANGED << filter_df, widget >>

FiscalYearFilter ==
  /\ pc = "fiscal_year"
  /\ IF "Fiscal Year" \in df.cols
     THEN Selectbox("Fiscal Year", Unique(df.rows, "fiscal_year", <<>>),
                    "fiscal_year", "month")
     ELSE Skip("month")
  /\ UNCHANGED << uploaded_file, df, st_error, date_range, main_out, page_vars >>

MonthFilter ==
  /\ pc = "month"
  /\ IF "Month" \in df.cols
     THEN Selectbox("Month", Unique(filter_df, "month", <<>>), "month", "platform")
     ELSE Skip("platform")
  /\ UNCHANGED << uploaded_file, df, st_error, date_range, main_out, page_vars >>

\* Mutant: the multiselect narrows by the platforms picked even when 'All' is
\* picked with them.
PlatformFilter_IgnoresAll ==
  /\ pc = "platform"
  /\ \E all \in BOOLEAN :
       \E values \in SUBSET Unique(filter_df, "platform", NA) :
         /\ widget' = Widget("Platform", Unique(filter_df, "platform", NA), all, values)
         /\ filter_df' = IF values # {}
                         THEN WhereIn(filter_df, "platform", values)
                         ELSE filter_df
         /\ pc' = "category"
  /\ UNCHANGED << uploaded_file, df, st_error, date_range, main_out, page_vars >>

PlatformFilter ==
  /\ pc = "platform"
  /\ IF "Platform" \in df.cols
     THEN Multiselect("Platform", Unique(filter_df, "platform", NA),
                      "platform", "category")
     ELSE Skip("category")
  /\ UNCHANGED << uploaded_file, df, st_error, date_range, main_out, page_vars >>

CategoryFilter ==
  /\ pc = "category"
  /\ IF "Category" \in df.cols
     THEN Multiselect("Category", Unique(filter_df, "category", NA),
                      "category", "product")
     ELSE Skip("product")
  /\ UNCHANGED << uploaded_file, df, st_error, date_range, main_out, page_vars >>

\* The checkbox "Filter by Product/SKU" and, when it is ticked, the selectbox.
ProductFilter ==
  /\ pc = "product"
  /\ \E checked \in BOOLEAN :
       IF checked /\ "Product" \in df.cols
       THEN Selectbox("Product", Unique(filter_df, "product", NA),
                      "product", "transaction_type")
       ELSE Skip("transaction_type")
  /\ UNCHANGED << uploaded_file, df, st_error, date_range, main_out, page_vars >>

TransactionTypeFilter ==
  /\ pc = "transaction_type"
  /\ IF "Transaction Type" \in df.cols
     THEN Selectbox("Transaction Type", Unique(df.rows, "ttype", NA),
                    "ttype", "dispatch_status")
     ELSE Skip("dispatch_status")
  /\ UNCHANGED << uploaded_file, df, st_error, date_range, main_out, page_vars >>

DispatchStatusFilter ==
  /\ pc = "dispatch_status"
  /\ IF "Dispatch Status" \in df.cols
     THEN Selectbox("Dispatch Status", Unique(df.rows, "dispatch", NA),
                    "dispatch", "date_range")
     ELSE Skip("date_range")
  /\ UNCHANGED << uploaded_file, df, st_error, date_range, main_out, page_vars >>

\* What st.date_input can return between min_date and max_date: one day while
\* the user is picking, or a first and a last day.
DateInputs(min_date, max_date) ==
  LET days == DayOf(min_date)..DayOf(max_date)
  IN { <<a>> : a \in days }
       \cup { <<p[1], p[2]>> : p \in { q \in days \X days : q[1] <= q[2] } }

\* Mutant: the dates of the frame are cut to their day before they are compared.
WhereDateRange_Normalized(rows, range) ==
  LET Keep(r) == /\ DateGe(r.date, Midnight(range[1]))
                 /\ DateLe(r.date, Midnight(range[2]))
      Cut(r) == [r EXCEPT !.date = IF r.date = NaT THEN NaT ELSE Midnight(DayOf(r.date))]
      cut == [i \in 1..Len(rows) |-> Cut(rows[i])]
  IN SelectSeq(cut, Keep)

\* The rows the custom date range keeps.
WhereDateRange(rows, range) ==
  LET Keep(r) == /\ DateGe(r.date, Midnight(range[1]))
                 /\ DateLe(r.date, Midnight(range[2]))
  IN SelectSeq(rows, Keep)

DateRangeFilter ==
  /\ pc = "date_range"
  /\ pc' = "metrics"
  /\ IF /\ "Final Order date" \in df.cols
        /\ MinDate(df.rows) # NaT
        /\ MaxDate(df.rows) # NaT
     THEN \E use_custom_date \in BOOLEAN :
            IF use_custom_date
            THEN \E range \in DateInputs(MinDate(df.rows), MaxDate(df.rows)) :
                   /\ date_range' = range
                   /\ filter_df' = IF Len(range) = 2
                                   THEN WhereDateRange(filter_df, range)
                                   ELSE filter_df
            ELSE UNCHANGED << filter_df, date_range >>
     ELSE UNCHANGED << filter_df, date_range >>
  /\ UNCHANGED << uploaded_file, df, st_error, widget, main_out, page_vars >>

\* ------------------------------------------------------------------ groupby

\* Every name of the workbooks of the model, in Python's string order.
NameOrder == <<"A", "B", "P", "Q">> \o SkuNames \o <<"X", "Y">>

\* The keys of frame.groupby(col): the non-null values, sorted.
GroupKeys(rows, col) ==
  LET Present(k) == \E i \in 1..Len(rows) : rows[i][col] = k
  IN SelectSeq(NameOrder, Present)

\* frame.groupby(col)[val].sum() at key k.
GroupSum(rows, col, k, val) == SumOf(WhereEq(rows, col, k), val)

\* Mutant: the previous period is looked up in the filtered frame.
calculate_trend_InFiltered(frame, current) ==
  LET current_start == MinDate(current)
      current_end == MaxDate(current)
      period_length == (current_end - current_start) \div TicksPerDay
      prev_start == current_start - period_length * TicksPerDay
      prev_end == current_start - TicksPerDay
      InPrev(r) == DateGe(r.date, prev_start) /\ DateLe(r.date, prev_end)
      prev_df == SelectSeq(current, InPrev)
      prev_revenue == IF "Net Revenue" \in frame.cols
                      THEN SumOf(prev_df, "net_revenue") ELSE 0
      prev_qty == IF "Net Quantity" \in frame.cols
                  THEN SumOf(prev_df, "net_quantity") ELSE 0
      prev_orders == Len(prev_df)
  IN IF "Final Order date" \notin frame.cols \/ Len(current) = 0 THEN NoTrend
     ELSE IF current_start = NaT THEN NoTrend
     ELSE IF period_length <= 0 THEN NoTrend
     ELSE IF Len(prev_df) = 0 THEN NoTrend
     ELSE [ok |-> TRUE, revenue |-> prev_revenue, qty |-> prev_qty,
           orders |-> prev_orders, avg |-> Ratio(prev_revenue, prev_orders)]

\* calculate_trend(current_df, date_column), with main()'s df in its closure.
\* ok = FALSE is the tuple of four None.
calculate_trend(frame, current) ==
  LET current_start == MinDate(current)
      current_end == MaxDate(current)
      period_length == (current_end - current_start) \div TicksPerDay
      prev_start == current_start - period_length * TicksPerDay
      prev_end == current_start - TicksPerDay
      InPrev(r) == DateGe(r.date, prev_start) /\ DateLe(r.date, prev_end)
      prev_df == SelectSeq(frame.rows, InPrev)
      prev_revenue == IF "Net Revenue" \in frame.cols
                      THEN SumOf(prev_df, "net_revenue") ELSE 0
      prev_qty == IF "Net Quantity" \in frame.cols
                  THEN SumOf(prev_df, "net_quantity") ELSE 0
      prev_orders == Len(prev_df)
  IN IF "Final Order date" \notin frame.cols \/ Len(current) = 0 THEN NoTrend
     ELSE IF current_start = NaT THEN NoTrend
     ELSE IF period_length <= 0 THEN NoTrend
     ELSE IF Len(prev_df) = 0 THEN NoTrend
     ELSE [ok |-> TRUE, revenue |-> prev_revenue, qty |-> prev_qty,
           orders |-> prev_orders, avg |-> Ratio(prev_revenue, prev_orders)]

\* ------------------------------------------------------------------ KPI row

NoDelta == [ok |-> FALSE, num |-> 0, den |-> 1]

\* Mutant: the change is computed whenever there is a previous period.
Delta_Unguarded(trend, total, previous) ==
  IF trend.ok
  THEN [ok |-> TRUE, num |-> (total - previous) * 100, den |-> previous]
  ELSE NoDelta

\* ((total - previous) / previous) * 100 when previous is truthy and positive.
Delta(trend, total, previous) ==
  IF trend.ok /\ previous # 0 /\ previous > 0
  THEN [ok |-> TRUE, num |-> (total - previous) * 100, den |-> previous]
  ELSE NoDelta

\* The same for the average order value, a quotient against a quotient.
AvgDelta(trend, avg_value, prev_avg) ==
  IF trend.ok /\ prev_avg.num # 0 /\ prev_avg.num * prev_avg.den > 0
  THEN [ok |-> TRUE,
        num |-> (avg_value.num * prev_avg.den - prev_avg.num * avg_value.den) * 100,
        den |-> avg_value.den * prev_avg.num]
  ELSE NoDelta

Kpis(frame, rows, trend) ==
  LET total_revenue == IF "Net Revenue" \in frame.cols
                       THEN SumOf(rows, "net_revenue") ELSE 0
      total_qty == IF "Net Quantity" \in frame.cols
                   THEN SumOf(rows, "net_quantity") ELSE 0
      total_orders == Len(rows)
      avg_value == IF total_orders > 0 THEN Ratio(total_revenue, total_orders) ELSE Zero
  IN [ok |-> TRUE,
      total_revenue |-> total_revenue,
      total_qty |-> total_qty,
      total_orders |-> total_orders,
      avg_value |-> avg_value,
      revenue_delta |-> Delta(trend, total_revenue, trend.revenue),
      qty_delta |-> Delta(trend, total_qty, trend.qty),
      orders_delta |-> Delta(trend, total_orders, trend.orders),
      avg_delta |-> AvgDelta(trend, avg_value, trend.avg)]

\* ------------------------------------------------------------------ generate_insights

Finding(kind, name, value) == [kind |-> kind, name |-> name, value |-> value]

\* groupby(col)['Net Revenue'].sum().idxmax(), and the index of nlargest(1):
\* the first of the largest, in key order.
FirstLargest(rows, col) ==
  LET keys == GroupKeys(rows, col)
      Revenue(k) == GroupSum(rows, col, k, "net_revenue")
      best == CHOOSE i \in 1..Len(keys) :
                /\ \A j \in 1..Len(keys) : Revenue(keys[j]) <= Revenue(keys[i])
                /\ \A j \in 1..(i - 1) : Revenue(keys[j]) < Revenue(keys[i])
  IN keys[best]

\* generate_insights(df, filtered_df).  raised: the call ends in an exception
\* (KeyError on a missing 'Net Revenue', ValueError from idxmax of no group).
generate_insights(frame, rows) ==
  LET cols == frame.cols
      total_revenue == IF "Net Revenue" \in cols THEN SumOf(rows, "net_revenue") ELSE 0
      avg_order_value == IF Len(rows) > 0 THEN Ratio(total_revenue, Len(rows)) ELSE Zero
      platforms == GroupKeys(rows, "platform")
      PlatformRevenue(k) == GroupSum(rows, "platform", k, "net_revenue")
      top_platform == FirstLargest(rows, "platform")
      total_sales == SumOf(rows, "sale_amt")
      total_returns == SumOf(rows, "ret_amt")
      return_rate == IF total_sales > 0 THEN Ratio(total_returns * 100, total_sales)
                     ELSE Zero
      products == GroupKeys(rows, "product")
      ProductRevenue(k) == GroupSum(rows, "product", k, "net_revenue")
      top_product == FirstLargest(rows, "product")
      raises == \/ /\ "Platform" \in cols
                   /\ ("Net Revenue" \notin cols \/ platforms = <<>>)
                \/ /\ "Product" \in cols
                   /\ "Net Revenue" \notin cols
  IN IF Len(rows) = 0
     THEN [raised |-> FALSE, items |-> <<Finding("no_data", NA, Zero)>>]
     ELSE IF raises THEN [raised |-> TRUE, items |-> <<>>]
     ELSE [raised |-> FALSE,
           items |->
             <<Finding("average_order_value", NA, avg_order_value)>>
             \o (IF "Platform" \in cols
                 THEN <<Finding("top_platform", top_platform,
                                Ratio(PlatformRevenue(top_platform), 1))>>
                 ELSE <<>>)
             \o (IF AmtCols \subseteq cols
                 THEN <<Finding("return_rate", NA, return_rate)>>
                 ELSE <<>>)
             \o (IF "Product" \in cols /\ products # <<>>
                 THEN <<Finding("best_seller", top_product,
                                Ratio(ProductRevenue(top_product), 1))>>
                 ELSE <<>>)]

\* ------------------------------------------------------------------ charts

\* sort_values('Net Revenue', ascending=False), as a stable sort.
SortByRevenueDescending(s) ==
  LET Before(a, b) == a.net_revenue > b.net_revenue
      Place(i) ==
        1 + Cardinality({ j \in 1..Len(s) :
                            \/ Before(s[j], s[i])
                            \/ (j < i /\ ~Before(s[i], s[j])) })
  IN [k \in 1..Len(s) |-> s[CHOOSE i \in 1..Len(s) : Place(i) = k]]

\* DataFrame.head(n).
HeadRows(s, n) == SubSeq(s, 1, IF Len(s) < n THEN Len(s) ELSE n)

\* The bar chart of the best products shows this many.
TopProducts == 10

\* frame.groupby(col)['Net Revenue'].sum().reset_index().
RevenueBy(rows, col) ==
  LET keys == GroupKeys(rows, col)
  IN [i \in 1..Len(keys) |->
        [key |-> keys[i], net_revenue |-> GroupSum(rows, col, keys[i], "net_revenue")]]

\* The members of a set of integers, ascending.
Ascending(S) ==
  [k \in 1..Cardinality(S) |->
     CHOOSE d \in S : Cardinality({ e \in S : e < d }) = k - 1]

\* frame.groupby(frame[date_col].dt.date)['Net Revenue'].sum().reset_index():
\* one row per day, rows without a date left out.
TimeData(rows) ==
  LET Dated(r) == r.date # NaT
      dated == SelectSeq(rows, Dated)
      days == Ascending({ DayOf(dated[i].date) : i \in 1..Len(dated) })
      Revenue(d) ==
        LET OnDay(r) == DayOf(r.date) = d
        IN SumOf(SelectSeq(dated, OnDay), "net_revenue")
  IN [i \in 1..Len(days) |-> [key |-> days[i], net_revenue |-> Revenue(days[i])]]

\* The four charts of main().  raised: a chart's frame could not be built
\* (KeyError on a missing 'Net Revenue' or a missing date column).
Charts(frame, rows) ==
  LET cols == frame.cols
      raises == \/ "Platform" \in cols /\ "Net Revenue" \notin cols
                \/ "Category" \in cols /\ "Net Revenue" \notin cols
                \/ "Final Order date" \notin cols
                \/ "Net Revenue" \notin cols
  IN IF raises
     THEN [drawn |-> FALSE, raised |-> TRUE, platform_data |-> <<>>,
           category_data |-> <<>>, time_data |-> <<>>, top_products |-> <<>>]
     ELSE [drawn |-> TRUE, raised |-> FALSE,
           platform_data |-> SortByRevenueDescending(RevenueBy(rows, "platform")),
           category_data |-> RevenueBy(rows, "category"),
           time_data |-> TimeData(rows),
           top_products |->
             HeadRows(SortByRevenueDescending(RevenueBy(rows, "product")),
                      TopProducts)]

\* The rest of main() after the filters: filtered_df = filter_df.copy(), the
\* previous period, the KPI row, the insights and the charts.  An exception
\* out of generate_insights ends the script before the charts.
Metrics ==
  /\ pc = "metrics"
  /\ pc' = "done"
  /\ prev' = calculate_trend(df, filter_df)
  /\ kpi' = Kpis(df, filter_df, calculate_trend(df, filter_df))
  /\ insights' = generate_insights(df, filter_df)
  /\ charts' = IF generate_insights(df, filter_df).raised THEN NoCharts
               ELSE Charts(df, filter_df)
  /\ UNCHANGED << uploaded_file, df, st_error, filter_df, widget, date_range,
                  page_vars >>

\* ------------------------------------------------------------------ pages

\* What a page has drawn: nothing yet, or the rows of a frame.
NotDrawn == [drawn |-> FALSE, rows |-> <<>>]
Drawn(rows) == [drawn |-> TRUE, rows |-> rows]

\* Series.count(): the cells that are not null.
CountDates(rows) == Len(SelectSeq(rows, LAMBDA r : r.date # NaT))

\* Platform Intelligence: groupby('Platform').agg(sum, sum, count) and AOV.
PlatformMetrics(rows) ==
  LET keys == GroupKeys(rows, "platform")
      Row(k) ==
        LET revenue == GroupSum(rows, "platform", k, "net_revenue")
            orders == CountDates(WhereEq(rows, "platform", k))
        IN [platform |-> k,
            net_revenue |-> revenue,
            net_quantity |-> GroupSum(rows, "platform", k, "net_quantity"),
            orders |-> orders,
            aov |-> Ratio(revenue, orders)]
  IN [i \in 1..Len(keys) |-> Row(keys[i])]

\* Order of two float quotients under sort_values(ascending=True): NaN is
\* last and never before anything.
IsNaN(q) == q.den = 0 /\ q.num = 0
Sign(n) == IF n > 0 THEN 1 ELSE IF n < 0 THEN -1 ELSE 0
QuotientLt(p, q) ==
  IF IsNaN(p) THEN FALSE
  ELSE IF IsNaN(q) THEN TRUE
  ELSE IF p.den = 0 THEN p.num < 0 /\ ~(q.den = 0 /\ q.num < 0)
  ELSE IF q.den = 0 THEN q.num > 0
  ELSE p.num * Sign(p.den) * q.den * Sign(q.den) < q.num * Sign(q.den) * p.den * Sign(p.den)

\* sort_values('Return Rate (%)', ascending=True), as a stable sort: the place
\* of s[i] is one past the number of rows that go before it, earlier equals
\* included.
SortByReturnRate(s) ==
  LET Before(a, b) == QuotientLt(a.return_rate, b.return_rate)
      Place(i) ==
        1 + Cardinality({ j \in 1..Len(s) :
                            \/ Before(s[j], s[i])
                            \/ (j < i /\ ~Before(s[i], s[j])) })
  IN [k \in 1..Len(s) |-> s[CHOOSE i \in 1..Len(s) : Place(i) = k]]

\* Platform Intelligence: the return rate per platform, best first.
ReturnData(rows) ==
  LET keys == GroupKeys(rows, "platform")
      Row(k) ==
        LET sales == GroupSum(rows, "platform", k, "sale_amt")
            returns == GroupSum(rows, "platform", k, "ret_amt")
        IN [platform |-> k, sale_amt |-> sales, ret_amt |-> returns,
            return_rate |-> Ratio(returns * 100, sales)]
  IN SortByReturnRate([i \in 1..Len(keys) |-> Row(keys[i])])

\* The script of the Platform Intelligence page: it stops when the session
\* holds no data; the multiselect narrows the frame unless it is empty.
PlatformPage ==
  /\ IF session_data.ok
     THEN \E selected_platforms \in SUBSET Unique(session_data.rows, "platform", NA) :
            LET rows == IF selected_platforms # {}
                        THEN WhereIn(session_data.rows, "platform", selected_platforms)
                        ELSE session_data.rows
            IN /\ platform_metrics' = Drawn(PlatformMetrics(rows))
               /\ return_data' = Drawn(ReturnData(rows))
               /\ st_warning' = ""
     ELSE /\ platform_metrics' = NotDrawn
          /\ return_data' = NotDrawn
          /\ st_warning' = "Platform Intelligence"
  /\ UNCHANGED << uploaded_file, df, st_error, pc, filter_df, widget, date_range,
                  main_out, session_data, prod_stats, pareto_data >>

\* Product Matrix: groupby('Product').agg(sum, sum), by revenue descending.
ProdStats(rows) ==
  LET keys == GroupKeys(rows, "product")
      Row(k) == [product |-> k,
                 net_revenue |-> GroupSum(rows, "product", k, "net_revenue"),
                 net_quantity |-> GroupSum(rows, "product", k, "net_quantity")]
  IN SortByRevenueDescending([i \in 1..Len(keys) |-> Row(keys[i])])

\* The Pareto chart shows this many products.
ParetoTop == 50

\* Series.cumsum() of the revenue, at row i.
CumRevenue(stats, i) == SumRange(stats, "net_revenue", 1, i)

\* Product Matrix: cumulative revenue and cumulative percentage of prod_stats.
ParetoFull(stats) ==
  LET total == CumRevenue(stats, Len(stats))
      Row(i) == [product |-> stats[i].product,
                 net_revenue |-> stats[i].net_revenue,
                 cumulative_revenue |-> CumRevenue(stats, i),
                 cumulative_pct |-> Ratio(100 * CumRevenue(stats, i), total)]
  IN [i \in 1..Len(stats) |-> Row(i)]

\* Mutant: the frame is cut to the chart's rows before the percentages are taken.
ParetoData_TruncateFirst(stats) == ParetoFull(HeadRows(stats, ParetoTop))

\* Product Matrix: pareto_data, the first ParetoTop rows of the above.
ParetoData(stats) == HeadRows(ParetoFull(stats), ParetoTop)

\* The script of the Product Matrix page.
ProductPage ==
  /\ IF session_data.ok
     THEN \E all \in BOOLEAN :
            \E selected_cat \in (IF all THEN {NA}
                                 ELSE Unique(session_data.rows, "category", NA)) :
              LET rows == IF ~all
                          THEN WhereEq(session_data.rows, "category", selected_cat)
                          ELSE session_data.rows
              IN /\ prod_stats' = Drawn(ProdStats(rows))
                 /\ pareto_data' = Drawn(ParetoData(ProdStats(rows)))
                 /\ st_warning' = ""
     ELSE /\ prod_stats' = NotDrawn
          /\ pareto_data' = NotDrawn
          /\ st_warning' = "Product Matrix"
  /\ UNCHANGED << uploaded_file, df, st_error, pc, filter_df, widget, date_range,
                  main_out, session_data, platform_metrics, return_data >>

\* ------------------------------------------------------------------ specifications

\* The application: reruns of main(), each with the file the uploader holds,
\* and runs of the two pages, which the user may open at any time.
Init ==
  /\ uploaded_file = NoFile
  /\ df = None
  /\ st_error = FALSE
  /\ pc = "load"
  /\ filter_df = <<>>
  /\ widget = NoWidget
  /\ date_range = <<>>
  /\ prev = NoTrend
  /\ kpi = NoKpi
  /\ insights = NoInsights
  /\ charts = NoCharts
  /\ session_data = None
  /\ st_warning = ""
  /\ platform_metrics = NotDrawn
  /\ return_data = NotDrawn
  /\ prod_stats = NotDrawn
  /\ pareto_data = NotDrawn

Upload == \E f \in Files \cup {NoFile} : Load(f)

Next ==
  \/ Upload
  \/ Rerun
  \/ FiscalYearFilter
  \/ MonthFilter
  \/ PlatformFilter
  \/ CategoryFilter
  \/ ProductFilter
  \/ TransactionTypeFilter
  \/ DispatchStatusFilter
  \/ DateRangeFilter
  \/ Metrics
  \/ PlatformPage
  \/ ProductPage

Spec == Init /\ [][Next]_vars

\* The aggregations as functions of a loaded frame: the frame is any workbook
\* with every column, loaded; main() has drawn its filters with nothing
\* selected, the pages find the frame in the session.
InitAgg ==
  /\ uploaded_file \in { Workbook(AllCols, r) : r \in RowLists \cup WideRowLists }
  /\ df = load_data(uploaded_file)
  /\ st_error = FALSE
  /\ pc = "metrics"
  /\ filter_df = df.rows
  /\ widget = NoWidget
  /\ date_range = <<>>
  /\ prev = NoTrend
  /\ kpi = NoKpi
  /\ insights = NoInsights
  /\ charts = NoCharts
  /\ session_data = df
  /\ st_warning = ""
  /\ platform_metrics = NotDrawn
  /\ return_data = NotDrawn
  /\ prod_stats = NotDrawn
  /\ pareto_data = NotDrawn

NextAgg ==
  \/ Metrics
  \/ PlatformPage
  \/ ProductPage

SpecAgg == InitAgg /\ [][NextAgg]_vars

\* load_data as a function of the sheet: the uploader holds one of the dated
\* or numeric sheets and main() reads it.
InitLoad ==
  /\ uploaded_file \in LoadFiles
  /\ df = None
  /\ st_error = FALSE
  /\ pc = "load"
  /\ filter_df = <<>>
  /\ widget = NoWidget
  /\ date_range = <<>>
  /\ prev = NoTrend
  /\ kpi = NoKpi
  /\ insights = NoInsights
  /\ charts = NoCharts
  /\ session_data = None
  /\ st_warning = ""
  /\ platform_metrics = NotDrawn
  /\ return_data = NotDrawn
  /\ prod_stats = NotDrawn
  /\ pareto_data = NotDrawn

NextLoad == Load(uploaded_file)

SpecLoad == InitLoad /\ [][NextLoad]_vars

\* ------------------------------------------------------------------ claims

\* The step of main() that has just been taken.
LoadStep == pc = "load" /\ pc' # "load"

\* The widget each filter step draws, and the column it filters.
StepWidget(step) ==
  CASE step = "fiscal_year" -> "Fiscal Year"
    [] step = "month" -> "Month"
    [] step = "platform" -> "Platform"
    [] step = "category" -> "Category"
    [] step = "product" -> "Product"
    [] step = "transaction_type" -> "Transaction Type"
    [] step = "dispatch_status" -> "Dispatch Status"
    [] OTHER -> "none"

WidgetField(name) ==
  CASE name = "Fiscal Year" -> "fiscal_year"
    [] name = "Month" -> "month"
    [] name = "Platform" -> "platform"
    [] name = "Category" -> "category"
    [] name = "Product" -> "product"
    [] name = "Transaction Type" -> "ttype"
    [] name = "Dispatch Status" -> "dispatch"

\* A widget has been drawn in the step from this state to the next.
WidgetStep == pc' # pc /\ widget'.name = StepWidget(pc)

\* C1 (as claimed): a load that fails reports an error and leaves the dataset
\* of the run before it in place.
C1_FailedLoadKeepsPrevious ==
  [][(LoadStep /\ load_error(uploaded_file')) => (st_error' /\ df' = df)]_vars

\* C1 (amended): a load that fails reports an error and leaves no dataset
\* active: df is None, main() has stopped before any filter or aggregate, and
\* no rows are in view; a dataset that is active is the normalisation of the
\* uploaded sheet, whole, never a part or a mixture.
C1_FailedLoadStops ==
  /\ load_error(uploaded_file) =>
       /\ st_error
       /\ df = None
       /\ pc \in {"stopped", "load"}
       /\ filter_df = <<>>
       /\ ~kpi.ok
  /\ df.ok =>
       /\ uploaded_file.kind = "workbook"
       /\ ~st_error
       /\ Len(df.rows) = Len(uploaded_file.rows)
       /\ \A i \in 1..Len(df.rows) :
            df.rows[i] = Normalize(uploaded_file.cols, uploaded_file.rows[i], i)

C1_Witness == st_error /\ pc = "stopped" /\ uploaded_file = NoSheet

C3_ViewIsSubsequence ==
  /\ \A i \in 1..Len(filter_df) :
       /\ filter_df[i].idx \in 1..Len(df.rows)
       /\ filter_df[i] = df.rows[filter_df[i].idx]
  /\ \A i \in 1..Len(filter_df) : \A j \in 1..Len(filter_df) :
       i < j => filter_df[i].idx < filter_df[j].idx
  /\ df.ok =>
       /\ Len(df.rows) = Len(uploaded_file.rows)
       /\ \A i \in 1..Len(df.rows) :
            df.rows[i] = Normalize(uploaded_file.cols, uploaded_file.rows[i], i)

C3_Witness ==
  /\ pc = "done"
  /\ Len(date_range) = 2
  /\ Len(filter_df) > 0
  /\ Len(filter_df) < Len(df.rows)
  /\ \E i \in 1..Len(filter_df) : filter_df[i].date # Midnight(DayOf(filter_df[i].date))

\* C4: a filter step whose selection is 'All' (or, for the platform and
\* category multiselects, holds 'All' or is empty) leaves the rows in view as
\* they were, rows with a null in that column included.
C4_AllExcludesNothing ==
  [][(/\ WidgetStep
      /\ \/ widget'.all
         \/ (widget'.name \in {"Platform", "Category"} /\ widget'.values = {}))
     => filter_df' = filter_df]_vars

C4_Witness ==
  /\ pc = "category"
  /\ widget.name = "Platform"
  /\ widget.all
  /\ widget.values # {}
  /\ \E i \in 1..Len(filter_df) : filter_df[i].platform = NA
  /\ \E i \in 1..Len(filter_df) : filter_df[i].platform \notin widget.values \cup {NA}

\* C5 (as claimed): the options each filter offers are the values of its
\* column in the view narrowed by the filters before it, so each option
\* matches a row of that view.
C5_OptionsFromNarrowedView ==
  [][WidgetStep =>
       \A v \in widget'.options :
         \E i \in 1..Len(filter_df) : filter_df[i][WidgetField(widget'.name)] = v]_vars

\* C6 (as claimed): the custom date range keeps exactly the rows whose order
\* date falls, by its day, between the first and the last day picked, both
\* included, whatever the time of day.
C6_DateRangeInclusiveByDay ==
  [][(pc = "date_range" /\ pc' = "metrics" /\ Len(date_range') = 2) =>
       LET OnADayInRange(r) ==
             /\ r.date # NaT
             /\ DayOf(r.date) >= date_range'[1]
             /\ DayOf(r.date) <= date_range'[2]
       IN filter_df' = SelectSeq(filter_df, OnADayInRange)]_vars

\* q is the float a / n, and 0 when n is 0.
IsQuotientOrZero(q, a, n) ==
  /\ q.den # 0
  /\ IF n = 0 THEN q.num = 0 ELSE q.num * n = a * q.den

\* The records of the page's frame that fall in the group of platform k: the
\* page's own multiselect keeps or drops a platform's records together.
PlatformGroup(k) == WhereEq(session_data.rows, "platform", k)

\* C7 (as claimed): the AOV of every platform group and of the KPI row is the
\* summed net revenue over the number of records, dated or not, and 0 when
\* there is no record.
C7_AovIsRevenuePerRecord ==
  /\ platform_metrics.drawn =>
       \A i \in 1..Len(platform_metrics.rows) :
         LET m == platform_metrics.rows[i]
         IN IsQuotientOrZero(m.aov, SumOf(PlatformGroup(m.platform), "net_revenue"),
                             Len(PlatformGroup(m.platform)))
  /\ kpi.ok =>
       IsQuotientOrZero(kpi.avg_value, SumOf(filter_df, "net_revenue"), Len(filter_df))

\* C8 (as claimed): the return rate, per platform and overall, is returns over
\* gross sales times 100, and 0 (never a division by zero) when gross sales
\* are 0.
C8_ReturnRateZeroWithoutSales ==
  /\ return_data.drawn =>
       \A i \in 1..Len(return_data.rows) :
         LET m == return_data.rows[i]
         IN IsQuotientOrZero(m.return_rate,
                             100 * SumOf(PlatformGroup(m.platform), "ret_amt"),
                             SumOf(PlatformGroup(m.platform), "sale_amt"))
  /\ \A i \in 1..Len(insights.items) :
       insights.items[i].kind = "return_rate" =>
         IsQuotientOrZero(insights.items[i].value,
                          100 * SumOf(filter_df, "ret_amt"),
                          SumOf(filter_df, "sale_amt"))

\* The revenue of all the groups of prod_stats.
C9_Total == SumRange(prod_stats.rows, "net_revenue", 1, Len(prod_stats.rows))

\* C9: prod_stats is in descending order of revenue; pareto_data is its first
\* ParetoTop groups, each with the revenue cumulated down to it and, when the
\* total is positive, that sum as a percentage of the total of all the groups;
\* the percentage at the last of all the groups is 100.
C9_ParetoOverFullSet ==
  pareto_data.drawn =>
    LET stats == prod_stats.rows
        shown == pareto_data.rows
        full == ParetoFull(stats)
    IN /\ \A i \in 1..(Len(stats) - 1) : stats[i].net_revenue >= stats[i + 1].net_revenue
       /\ Len(shown) = IF Len(stats) < ParetoTop THEN Len(stats) ELSE ParetoTop
       /\ \A i \in 1..Len(shown) :
            /\ shown[i].product = stats[i].product
            /\ shown[i].cumulative_revenue = SumRange(stats, "net_revenue", 1, i)
            /\ C9_Total > 0 =>
                 /\ shown[i].cumulative_pct.den # 0
                 /\ shown[i].cumulative_pct.num * C9_Total
                      = 100 * shown[i].cumulative_revenue * shown[i].cumulative_pct.den
       /\ (C9_Total > 0 /\ Len(stats) <= ParetoTop) =>
            shown[Len(shown)].cumulative_pct.num = 100 * shown[Len(shown)].cumulative_pct.den
       /\ C9_Total > 0 =>
            full[Len(full)].cumulative_pct.num = 100 * full[Len(full)].cumulative_pct.den

C9_Witness ==
  /\ pareto_data.drawn
  /\ Len(prod_stats.rows) > ParetoTop
  /\ Len(pareto_data.rows) = ParetoTop
  /\ C9_Total > 0
  /\ prod_stats.rows[1].net_revenue > prod_stats.rows[Len(prod_stats.rows)].net_revenue

\* The previous period of the view: the span in whole days from its first to
\* its last date, and the rows of the whole dataset dated from that many days
\* before the first date to one day before it.
C10_Span == (MaxDate(filter_df) - MinDate(filter_df)) \div TicksPerDay
C10_Window ==
  { i \in 1..Len(df.rows) :
      /\ df.rows[i].date # NaT
      /\ df.rows[i].date >= MinDate(filter_df) - C10_Span * TicksPerDay
      /\ df.rows[i].date <= MinDate(filter_df) - TicksPerDay }

\* The sum of the column col over the rows at the positions in S.
RECURSIVE SumAt(_, _, _)
SumAt(rows, col, S) ==
  IF S = {} THEN 0
  ELSE LET i == CHOOSE j \in S : TRUE
       IN rows[i][col] + SumAt(rows, col, S \ {i})

\* C10: calculate_trend returns metrics exactly when the view has dates more
\* than a day apart and the dataset has rows in the previous period; they are
\* the number, the net revenue and the net quantity of those rows of the
\* whole dataset, whatever the filters keep.
C10_PreviousPeriodOverFullDataset ==
  pc = "done" =>
    IF /\ "Final Order date" \in df.cols
       /\ MinDate(filter_df) # NaT
       /\ C10_Span > 0
       /\ C10_Window # {}
    THEN /\ prev.ok
         /\ prev.orders = Cardinality(C10_Window)
         /\ "Net Revenue" \in df.cols => prev.revenue = SumAt(df.rows, "net_revenue", C10_Window)
         /\ "Net Quantity" \in df.cols => prev.qty = SumAt(df.rows, "net_quantity", C10_Window)
    ELSE ~prev.ok

C10_Witness ==
  /\ pc = "done"
  /\ prev.ok
  /\ "Net Revenue" \in df.cols
  /\ prev.revenue # 0
  /\ \E i \in C10_Window : \A j \in 1..Len(filter_df) : filter_df[j].idx # i

\* ------------------------------------------------------------------ C11

\* The previous values of the metrics, from the rows of the previous window.
C11_PrevRevenue ==
  IF "Net Revenue" \in df.cols THEN SumAt(df.rows, "net_revenue", C10_Window) ELSE 0
C11_PrevQuantity ==
  IF "Net Quantity" \in df.cols THEN SumAt(df.rows, "net_quantity", C10_Window) ELSE 0

\* The view has no dates, or dates less than a day apart.
C11_NoSpan ==
  \/ "Final Order date" \notin df.cols
  \/ MinDate(filter_df) = NaT
  \/ C10_Span <= 0

\* C11: each of the four deltas is null when the view spans no day, when the
\* previous window has no rows, or when the previous value of its metric is
\* zero; a delta that is computed never has a zero divisor.
C11_DeltasNullWithoutBaseline ==
  pc = "done" =>
    /\ (C11_NoSpan \/ C10_Window = {}) =>
          /\ ~kpi.revenue_delta.ok
          /\ ~kpi.qty_delta.ok
          /\ ~kpi.orders_delta.ok
          /\ ~kpi.avg_delta.ok
    /\ (~C11_NoSpan /\ C11_PrevRevenue = 0) =>
          ~kpi.revenue_delta.ok /\ ~kpi.avg_delta.ok
    /\ (~C11_NoSpan /\ C11_PrevQuantity = 0) => ~kpi.qty_delta.ok
    /\ \A d \in {kpi.revenue_delta, kpi.qty_delta, kpi.orders_delta, kpi.avg_delta} :
          /\ d.ok => d.den # 0
          /\ ~d.ok => d = NoDelta

\* A previous window with rows whose net revenue and quantity are zero: the
\* order delta is computed, the other three are null.
C11_Witness ==
  /\ pc = "done"
  /\ prev.ok
  /\ AmtCols \cup QtyCols \subseteq df.cols
  /\ prev.revenue = 0
  /\ prev.qty = 0
  /\ kpi.orders_delta.ok
  /\ ~kpi.revenue_delta.ok
  /\ ~kpi.qty_delta.ok
  /\ ~kpi.avg_delta.ok

\* ------------------------------------------------------------------ C12

\* C12: when the filtered view is empty, main() ends without an error: the
\* frames behind the charts are empty, the KPI revenue and average order value
\* are 0, the four deltas are null and the insights are the single finding
\* that no data matches.
C12_EmptyViewPropagates ==
  (pc = "done" /\ Len(filter_df) = 0) =>
    /\ kpi.total_revenue = 0
    /\ kpi.avg_value = Zero
    /\ ~kpi.revenue_delta.ok
    /\ ~kpi.qty_delta.ok
    /\ ~kpi.orders_delta.ok
    /\ ~kpi.avg_delta.ok
    /\ ~insights.raised
    /\ insights.items = <<Finding("no_data", NA, Zero)>>
    /\ ~charts.raised
    /\ charts.drawn
    /\ charts.platform_data = <<>>
    /\ charts.category_data = <<>>
    /\ charts.time_data = <<>>
    /\ charts.top_products = <<>>

\* ------------------------------------------------------------------ C13

\* The view has a value in the column col.
C13_Has(col) == \E i \in 1..Len(filter_df) : filter_df[i][col] # NA

\* The findings the view's fields allow, in the order of the insights panel.
C13_Expected ==
  (IF "Net Revenue" \in df.cols THEN <<"average_order_value">> ELSE <<>>)
    \o (IF "Net Revenue" \in df.cols /\ C13_Has("platform")
        THEN <<"top_platform">> ELSE <<>>)
    \o (IF AmtCols \subseteq df.cols THEN <<"return_rate">> ELSE <<>>)
    \o (IF "Net Revenue" \in df.cols /\ C13_Has("product")
        THEN <<"best_seller">> ELSE <<>>)

\* C13: on a view with rows generate_insights never raises and returns, in
\* this order, the average order value, the top platform, the return rate and
\* the best seller, each left out exactly when its field is absent from the
\* dataset or null in every row.
C13_InsightsOmitMissingFields ==
  (pc = "done" /\ Len(filter_df) > 0) =>
    /\ ~insights.raised
    /\ [i \in 1..Len(insights.items) |-> insights.items[i].kind] = C13_Expected

\* ------------------------------------------------------------------ C14

\* The sheet the loaded frame was read from has a date column.
C14_Dated == df.ok /\ "Final Order date" \in uploaded_file.cols

\* C14: a record dated in calendar year Y has the fiscal year FY{Y}-{Y+1 mod
\* 100} from March on and FY{Y-1}-{Y mod 100} before, and the month label of
\* its date; a record whose date does not parse has no fiscal year and no
\* month, and is still in the loaded frame.
C14_FiscalYearFromMarch ==
  C14_Dated =>
    /\ Len(df.rows) = Len(uploaded_file.rows)
    /\ \A i \in 1..Len(df.rows) :
         LET cell == uploaded_file.rows[i].date
             r == df.rows[i]
         IN IF Len(cell) = 4
            THEN /\ r.fiscal_year =
                      IF cell[2] >= 3
                      THEN <<cell[1], (cell[1] + 1) % 100>>
                      ELSE <<cell[1] - 1, cell[1] % 100>>
                 /\ r.month = <<cell[2], cell[1]>>
            ELSE /\ r.date = NaT
                 /\ r.fiscal_year = <<>>
                 /\ r.month = <<>>

\* A frame with a record of March 1999 (FY1999-00) and a record without a date.
C14_Witness ==
  /\ C14_Dated
  /\ \E i \in 1..Len(df.rows) :
       /\ uploaded_file.rows[i].date = <<1999, 3, 1, 0>>
       /\ df.rows[i].fiscal_year = <<1999, 0>>
  /\ \E i \in 1..Len(df.rows) :
       /\ uploaded_file.rows[i].date = <<>>
       /\ df.rows[i].fiscal_year = <<>>

\* ------------------------------------------------------------------ C15

\* The number a raw numeric cell stands for: itself, or 0 when it is blank or
\* not a number.
C15_Number(cell) == IF cell = <<>> THEN 0 ELSE cell[1]

\* C15: every record of a loaded frame has net revenue = sale amount - return
\* amount and net quantity = sale quantity - return quantity, a cell or a
\* whole column that is missing or not a number counting as 0; both net
\* columns exist in every loaded frame.
C15_NetValuesAlwaysDefined ==
  (df.ok /\ uploaded_file.kind = "workbook") =>
    /\ "Net Revenue" \in df.cols
    /\ "Net Quantity" \in df.cols
    /\ Len(df.rows) = Len(uploaded_file.rows)
    /\ \A i \in 1..Len(df.rows) :
         LET raw == uploaded_file.rows[i]
             Cell(c, cell) == IF c \in uploaded_file.cols THEN C15_Number(cell) ELSE 0
         IN /\ df.rows[i].net_revenue =
                 Cell("Sale (Amt.)", raw.sale_amt) - Cell("Sale Return (Amt.)", raw.ret_amt)
            /\ df.rows[i].net_quantity =
                 Cell("Sale (Qty.)", raw.sale_qty) - Cell("Sale Return (Qty.)", raw.ret_qty)

\* ------------------------------------------------------------------ C16

\* C16: once main() has loaded a dataset the session holds it, and no page
\* shows "No data found".
C16_PagesSeeLoadedData ==
  df.ok => (session_data = df /\ st_warning = "")

====
